---- MODULE Spec2Model ----
(***************************************************************************)
(* A model of core.py: the field codecs, the document graph, and the      *)
(* CommandMaker scope (proxy tree, staging, __aexit__ compilation and the  *)
(* single update_one call), and the NiceCollection cache (find, delete,   *)
(* get_cached_or_minimal, the expiry sweep), run against one example       *)
(* schema:                                                                 *)
(*                                                                         *)
(*   class Sub(NiceNesting):                                               *)
(*       x = field(0, from_raw=int, to_raw=str)                            *)
(*   class Doc(NiceDocument):                                              *)
(*       n      = field(0, from_raw=int, to_raw=str, alias_for="num")      *)
(*       items  = field_with_list(from_raw_element=int, to_raw_element=str)*)
(*       m      = field_with_dict(from_raw_item=lower, to_raw_item=upper)  *)
(*       things = field_with_nestings(Sub, from_raw_key=lower,             *)
(*                                    to_raw_key=upper, alias="th")        *)
(*                                                                         *)
(* and, for the routes of deeper graphs, against a second one:             *)
(*                                                                         *)
(*   class Mid(NiceNesting):                                               *)
(*       inner = field_with_nestings(Sub, from_raw_key=lower,              *)
(*                                   to_raw_key=upper, alias="in")         *)
(*   class Deep(NiceDocument):                                             *)
(*       outer = field_with_nestings(Mid, from_raw_key=lower,              *)
(*                                   to_raw_key=upper)                     *)
(*                                                                         *)
(* Routes are kept as sequences of path segments; the dotted string of the *)
(* code is the segments joined by ".".                                     *)
(***************************************************************************)
EXTENDS Integers, Sequences, FiniteSets, TLC

\* ------------------------------------------------------------------ bounds
\* statements executed in the body of one scope
MaxStmts == 2

\* ------------------------------------------------------------------ helpers
Front(s) == SubSeq(s, 1, Len(s) - 1)
Last(s) == s[Len(s)]
Range(s) == {s[i] : i \in 1..Len(s)}
\* dict-style assignment d[k] = v on a function
Put(d, k, v) == (k :> v) @@ d
\* dict.pop(k, None)
Drop(d, k) == [j \in DOMAIN d \ {k} |-> d[j]]
EmptyDict == [j \in {} |-> 0]

\* ------------------------------------------------------------------ schema
DocId == "d1"
Keys == {"a", "b"}
Elems == {1, 2}
Deltas == {1}

\* cls._fields, as FieldExtractingMeta collects it
FieldsOf(T) ==
    CASE T = "Doc" -> {"n", "items", "m"}
      [] T = "Sub" -> {"x"}
      [] OTHER -> {}
\* cls._nice_nestings
NestingsOf(T) ==
    CASE T = "Doc" -> {"things"}
      [] T = "Deep" -> {"outer"}
      [] T = "Mid" -> {"inner"}
      [] OTHER -> {}
AttrsOf(T) == FieldsOf(T) \cup NestingsOf(T)

\* which FieldBase subclass the descriptor is
KindOf(T, f) ==
    CASE f \in {"n", "x"} -> "scalar"
      [] f = "items" -> "list"
      [] f = "m" -> "dict"
      [] OTHER -> "nestings"

\* FieldWithNestings.cls
ChildType(T, f) == IF f = "outer" THEN "Mid" ELSE "Sub"

\* field.real_name ("" stands for None)
RealName(T, f) ==
    CASE f = "n" -> "num"
      [] f = "things" -> "th"
      [] f = "inner" -> "in"
      [] OTHER -> ""

\* field.real_name or name
WireName(T, f) == IF RealName(T, f) # "" THEN RealName(T, f) ELSE f

\* ------------------------------------------------------------------ codecs
None == "None"
\* str(v) of the example schema's to_raw converters
StrOf == <<"0", "1", "2", "3", "4", "5", "6">>
ToStr(v) == StrOf[v + 1]
ToInt(r) == CHOOSE v \in 0..(Len(StrOf) - 1) : StrOf[v + 1] = r
\* to_raw_key / from_raw_key of the example schema
ToRawKey(k) == IF k = "a" THEN "A" ELSE "B"
FromRawKey(r) == IF r = "A" THEN "a" ELSE "b"

\* FieldBase.default: copy(self._default)
DefaultOf(T, f) ==
    CASE KindOf(T, f) = "scalar" -> 0
      [] KindOf(T, f) = "list" -> <<>>
      [] OTHER -> EmptyDict

\* Field.to_raw
ScalarToRaw(T, f, v) == IF v = DefaultOf(T, f) THEN None ELSE ToStr(v)
\* Field.from_raw
ScalarFromRaw(T, f, r) == IF r = None THEN DefaultOf(T, f) ELSE ToInt(r)
\* FieldWithContainer.to_raw (list kind)
ListToRaw(T, f, s) == [i \in 1..Len(s) |-> ToStr(s[i])]
\* FieldWithContainer.from_raw, value not None
ListFromRaw(T, f, r) == [i \in 1..Len(r) |-> ToInt(r[i])]
\* FieldWithDict.to_raw_item, as the pair <<raw key, raw value>>
ToRawItem(T, f, k, v) == <<ToRawKey(k), v>>
\* FieldWithDict.from_raw, data not None
DictFromRaw(T, f, r) == [k \in {FromRawKey(rk) : rk \in DOMAIN r} |-> r[ToRawKey(k)]]

\* data.get(use_name) is None
RawIsNone(data, w, kind) ==
    \/ w \notin DOMAIN data
    \/ kind = "scalar" /\ data[w] = None

\* ------------------------------------------------------------------ document graph
\* A node is [type, alias, vals, kids]: vals holds the plain attributes, kids
\* the nested-map attributes (key -> child node).  A node's parent is the node
\* one position up; a position is a sequence of <<field, key>> pairs.

\* field.from_raw(data.get(use_name)) for the plain fields
PlainFromRaw(T, f, data) ==
    LET w == WireName(T, f)
        kind == KindOf(T, f)
    IN  IF RawIsNone(data, w, kind) THEN DefaultOf(T, f)
        ELSE CASE kind = "scalar" -> ScalarFromRaw(T, f, data[w])
               [] kind = "list" -> ListFromRaw(T, f, data[w])
               [] OTHER -> DictFromRaw(T, f, data[w])

RECURSIVE NiceNestingInit(_, _, _)
\* FieldWithNestings.from_raw: one child per wire key, alias "<field>.<k>"
NestingsFromRaw(T, f, data) ==
    LET w == WireName(T, f)
    IN  IF w \notin DOMAIN data THEN EmptyDict
        ELSE [k \in {FromRawKey(rk) : rk \in DOMAIN data[w]} |->
                LET rk == CHOOSE r \in DOMAIN data[w] : FromRawKey(r) = k
                IN  NiceNestingInit(ChildType(T, f), data[w][rk], <<w, rk>>)]

\* NiceNesting.__init__
NiceNestingInit(T, data, alias) ==
    [type |-> T,
     alias |-> alias,
     vals |-> [f \in FieldsOf(T) |-> PlainFromRaw(T, f, data)],
     kids |-> [f \in NestingsOf(T) |-> NestingsFromRaw(T, f, data)]]

\* document_wrapper(data, collection) for the document class T
DocumentWrapper(T, data) ==
    [type |-> T,
     alias |-> <<>>,
     vals |-> [f \in FieldsOf(T) |-> PlainFromRaw(T, f, data)],
     kids |-> [f \in NestingsOf(T) |-> NestingsFromRaw(T, f, data)],
     id |-> data["_id"]]

\* NiceDocument.__init__
NiceDocumentInit(data) == DocumentWrapper("Doc", data)

RECURSIVE NodeAt(_, _)
NodeAt(node, pos) ==
    IF pos = <<>> THEN node
    ELSE NodeAt(node.kids[pos[1][1]][pos[1][2]], Tail(pos))

RECURSIVE HasNode(_, _)
HasNode(node, pos) ==
    \/ pos = <<>>
    \/ /\ pos[1][1] \in DOMAIN node.kids
       /\ pos[1][2] \in DOMAIN node.kids[pos[1][1]]
       /\ HasNode(node.kids[pos[1][1]][pos[1][2]], Tail(pos))

RECURSIVE PutAt(_, _, _)
\* rebinding of the node at pos (parent_dict[key] = new)
PutAt(node, pos, new) ==
    IF pos = <<>> THEN new
    ELSE LET f == pos[1][1]
             k == pos[1][2]
             old == IF k \in DOMAIN node.kids[f] THEN node.kids[f][k] ELSE new
         IN  [node EXCEPT !.kids[f] = Put(node.kids[f], k, PutAt(old, Tail(pos), new))]

RECURSIVE Positions(_)
\* the positions of all nodes of the graph under node
Positions(node) ==
    {<<>>} \cup UNION {UNION {{<<<<f, k>>>> \o p : p \in Positions(node.kids[f][k])}
                              : k \in DOMAIN node.kids[f]} : f \in DOMAIN node.kids}

\* ------------------------------------------------------------------ state
VARIABLES
    store,      \* the store's record of document DocId (no "_id" key: no record)
    doc,        \* the live root document (the live graph)
    doc0,       \* the live graph when the scope was opened
    base,       \* position of the node command_maker() was called on
    proxies,    \* the CommandMaker tree: proxy path -> staged operations
    order,      \* proxy paths in creation order (dict insertion order)
    mat,        \* children materialized by __getitem__, held by their proxies
    pc,         \* "open", "aborted", "raised", "sending", "sendfailed", "done"
    err,        \* the exception __aexit__ raised ("" for none)
    calls,      \* update_one calls issued, in order
    nstmts,     \* statements executed in the scope body
    deltas      \* history: proxy path -> every delta "+=" handed to its __iadd__

\* the state of one NiceCollection, of the store's collection behind it, and of
\* the calls made on it
VARIABLES
    coll,               \* the store's collection: id -> record (absent id: no record)
    cache,              \* NiceCollection.cache: id -> instance handle
    heap,               \* the document instances constructed so far, by handle
    lifetime,           \* NiceCollection.cache_lifetime
    last_cache_check,   \* NiceCollection._last_cache_check
    now,                \* time()
    pending,            \* find / delete calls suspended at their await, by call number
    nops,               \* calls started
    nticks,             \* clock advances
    lastret,            \* the call that returned last
    handed,             \* id -> instances find returned since id last left the cache
    delgen,             \* id -> delete(id) calls that have returned
    evictedAt           \* time of the latest sweep that evicted an entry (-1: none)

\* the container objects behind the list and dict attributes of the document
\* instances, each with its own identity
VARIABLES
    objs,       \* the list and dict objects made so far, by identity: their contents
    insts,      \* the document instances made so far: attribute -> identity of its value
    acted,      \* the instance the last step constructed or changed (0: none yet)
    nedits      \* steps taken on the instances

svars == <<store, doc, doc0, base, proxies, order, mat, pc, err, calls, nstmts, deltas>>
cvars == <<coll, cache, heap, lifetime, last_cache_check, now, pending, nops, nticks,
           lastret, handed, delgen, evictedAt>>
ovars == <<objs, insts, acted, nedits>>
vars == <<svars, cvars, ovars>>

\* ------------------------------------------------------------------ the collection
\* the throttle of _verify_cache_integrity
SweepInterval == 60
\* cache_lifetime = None
NoLifetime == -1
Ids == {"A", "B"}

NoRet == [op |-> "", id |-> "", h |-> 0, hit |-> FALSE, empty |-> FALSE, reads |-> 0]

\* NiceCollection.__init__ with cache_lifetime L, at time t
CollectionInit(L, t) ==
    /\ cache = EmptyDict
    /\ lifetime = L
    /\ last_cache_check = t

\* a collection nothing has been called on
\* FieldWithContainer.__init__ and FieldWithDict.__init__ without a default: the
\* descriptor of "items" stores list() as its _default, the one of "m" stores {}
DefaultObj(f) == IF f = "items" THEN 1 ELSE 2

ObjectsIdle ==
    /\ objs = <<<<>>, EmptyDict>>
    /\ insts = <<>>
    /\ acted = 0
    /\ nedits = 0

CollectionIdle ==
    /\ now = 0
    /\ CollectionInit(NoLifetime, now)
    /\ coll = EmptyDict
    /\ heap = EmptyDict
    /\ pending = EmptyDict
    /\ nops = 0
    /\ nticks = 0
    /\ lastret = NoRet
    /\ handed = [id \in Ids |-> {}]
    /\ delgen = [id \in Ids |-> 0]
    /\ evictedAt = -1

\* ------------------------------------------------------------------ proxies
\* A proxy path is a sequence of steps <<"attr", name>> (a key of the parent's
\* _pseudo_attrs) or <<"item", key>> (a key of its _pseudo_nestings); <<>> is the
\* CommandMaker the scope was opened with.
MISSING == [tag |-> "missing"]
Ellipsis == [tag |-> "clear"]
Val(v) == [tag |-> "val", v |-> v]

\* CommandMaker.__init__
CommandMakerInit(value) ==
    [value |-> value, inc |-> <<>>, add |-> <<>>, remove |-> <<>>,
     update |-> EmptyDict, pop |-> <<>>]

RECURSIVE TypeAtPos(_)
\* the declared type of the node at a position
TypeAtPos(pos) ==
    IF pos = <<>> THEN doc.type ELSE ChildType(TypeAtPos(Front(pos)), Last(pos)[1])

\* position of the node a root or item proxy stands for
PosOf(b, q) == b \o [i \in 1..(Len(q) \div 2) |-> <<q[2 * i - 1][2], q[2 * i][2]>>]

RECURSIVE PathsOf(_)
\* the chains cmd.a, cmd.a[k], cmd.a[k].b, ... that evaluate without raising:
\* __getattr__ needs the attribute on the underlying object, __getitem__ a
\* FieldWithNestings attribute of a NiceNesting
PathsOf(T) ==
    {<<>>}
    \cup {<<<<"attr", f>>>> : f \in AttrsOf(T)}
    \cup UNION {{<<<<"attr", fk[1]>>, <<"item", fk[2]>>>> \o p : p \in PathsOf(ChildType(T, fk[1]))}
                  : fk \in NestingsOf(T) \X Keys}

IsAttr(p) == p # <<>> /\ Last(p)[1] = "attr"
\* the object a proxy's parent stands for is a NiceNesting
OwnerIsNesting(p) == IsAttr(p) /\ (Len(p) = 1 \/ p[Len(p) - 1][1] = "item")
\* kind of the field an attribute proxy stands for
KindOfPath(b, p) == KindOf(TypeAtPos(PosOf(b, Front(p))), Last(p)[2])

\* the object at a position: a materialized child if one is held there
Obj(d, mt, pos) == IF pos \in DOMAIN mt THEN mt[pos] ELSE NodeAt(d, pos)

Prefixes(path) == {SubSeq(path, 1, i) : i \in 1..Len(path)}

\* CommandMaker.__getattr__ / __getitem__ along a chain: every proxy of the
\* chain that does not exist yet is created, in order
EnsureProxies(path) ==
    [q \in DOMAIN proxies \cup Prefixes(path) |->
        IF q \in DOMAIN proxies THEN proxies[q] ELSE CommandMakerInit(MISSING)]

EnsureOrder(path) ==
    LET have == Cardinality({i \in 1..Len(path) : SubSeq(path, 1, i) \in DOMAIN proxies})
    IN  order \o [j \in 1..(Len(path) - have) |-> SubSeq(path, 1, have + j)]

\* the materialized child's alias built from the key as given, not to_raw_key(key)
MaterializedPlainKey(pos) ==
    LET T == TypeAtPos(Front(pos))
        f == Last(pos)[1]
    IN  NiceNestingInit(ChildType(T, f), EmptyDict, <<WireName(T, f), Last(pos)[2]>>)

\* __getitem__: self._underlying.get(key) is None, so a child built from no
\* data is made, with parent the field's owner and alias "<field>.<raw key>"
Materialized(pos) ==
    LET T == TypeAtPos(Front(pos))
        f == Last(pos)[1]
    IN  NiceNestingInit(ChildType(T, f), EmptyDict, <<WireName(T, f), ToRawKey(Last(pos)[2])>>)

EnsureMat(path) ==
    LET fresh == {PosOf(base, q) : q \in {r \in Prefixes(path) \ DOMAIN proxies : Last(r)[1] = "item"}}
        new == {pos \in fresh : ~HasNode(doc, pos)}
    IN  [pos \in DOMAIN mat \cup new |-> IF pos \in DOMAIN mat THEN mat[pos] ELSE Materialized(pos)]

\* ------------------------------------------------------------------ initial states
NumRecs == {EmptyDict, "num" :> "1"}
ItemsRecs == {EmptyDict, "items" :> <<"1">>, "items" :> <<"1", "1">>}
MapRecs == {EmptyDict, ("m" :> ("A" :> "v")) @@ ("th" :> ("A" :> ("x" :> "1")))}
\* the records the store may hold for DocId
RawDocs == {("_id" :> DocId) @@ a @@ b @@ c : a \in NumRecs, b \in ItemsRecs, c \in MapRecs}

StoreHas(s) == "_id" \in DOMAIN s

\* NiceCollection.find on a cache miss: the document is built from the
\* store's record, or from {"_id": id} if there is none
FoundDoc(s) == NiceDocumentInit(IF StoreHas(s) THEN s ELSE ("_id" :> DocId))

Init ==
    /\ store \in RawDocs \cup {EmptyDict}
    /\ doc = FoundDoc(store)
    /\ doc0 = doc
    /\ base \in Positions(doc)
    /\ proxies = (<<>> :> CommandMakerInit(MISSING))
    /\ order = <<>>
    /\ mat = EmptyDict
    /\ pc = "open"
    /\ err = ""
    /\ calls = <<>>
    /\ nstmts = 0
    /\ deltas = EmptyDict
    /\ CollectionIdle
    /\ ObjectsIdle

\* ------------------------------------------------------------------ scope body
\* the values the modelled statements assign, per field kind
AssignVals(kind) ==
    CASE kind = "scalar" -> {Val(0), Val(1), Ellipsis}
      [] kind = "list" -> {Val(<<2>>), Ellipsis}
      [] OTHER -> {Ellipsis}

InBody == pc = "open" /\ nstmts < MaxStmts

StageProxy(path, px) ==
    /\ proxies' = [EnsureProxies(path) EXCEPT ![path] = px]
    /\ order' = EnsureOrder(path)
    /\ mat' = EnsureMat(path)
    /\ nstmts' = nstmts + 1
    /\ UNCHANGED <<store, doc, doc0, base, pc, err, calls>>
    /\ UNCHANGED <<cvars, ovars>>

Stage(path, px) == StageProxy(path, px) /\ UNCHANGED deltas

Proxy(path) == EnsureProxies(path)[path]

\* evaluating cmd.a[k].b without staging anything
Touch(path) ==
    /\ InBody
    /\ path \notin DOMAIN proxies
    /\ Stage(path, Proxy(path))

\* CommandMaker.__setattr__: cmd.<..>.name = v  (v may be Ellipsis)
SetAttr(path, v) ==
    /\ InBody
    /\ Stage(path, [Proxy(path) EXCEPT !.value = v])

\* CommandMaker.__iadd__: cmd.<..>.name += d
IAdd(path, d) ==
    /\ InBody
    /\ KindOfPath(base, path) = "scalar"
    /\ StageProxy(path, [Proxy(path) EXCEPT !.inc = <<d>>])
    /\ deltas' = Put(deltas, path, (IF path \in DOMAIN deltas THEN deltas[path] ELSE <<>>) \o <<d>>)

\* CommandMaker.append / add
AppendTo(path, el) ==
    /\ InBody
    /\ KindOfPath(base, path) = "list"
    /\ Stage(path, [Proxy(path) EXCEPT !.add = Append(@, el)])

\* CommandMaker.remove
RemoveFrom(path, el) ==
    /\ InBody
    /\ KindOfPath(base, path) = "list"
    /\ Stage(path, [Proxy(path) EXCEPT !.remove = Append(@, el)])

\* CommandMaker.__setitem__: cmd.<..>.name[key] = v
SetItem(path, key, v) ==
    /\ InBody
    /\ Len(path) = 1
    /\ KindOfPath(base, path) \in {"dict", "scalar"}
    /\ Stage(path, [Proxy(path) EXCEPT !.update = Put(@, key, v)])

\* CommandMaker.pop
PopKey(path, key) ==
    /\ InBody
    /\ Len(path) = 1
    /\ KindOfPath(base, path) \in {"dict", "nestings", "scalar"}
    /\ Stage(path, [Proxy(path) EXCEPT !.pop = Append(@, key)])

\* ------------------------------------------------------------------ __aexit__
\* keys of _pseudo_attrs, then of _pseudo_nestings, in insertion order
ChildrenOf(p) ==
    LET IsAttrKid(q) == Len(q) = Len(p) + 1 /\ Front(q) = p /\ Last(q)[1] = "attr"
        IsItemKid(q) == Len(q) = Len(p) + 1 /\ Front(q) = p /\ Last(q)[1] = "item"
    IN  SelectSeq(order, IsAttrKid) \o SelectSeq(order, IsItemKid)

RECURSIVE LeavesOfSeq(_)
\* CommandMaker._iter_leaves: a proxy is yielded only if it has no child proxy
\* (the proxy the scope was opened with is never yielded)
IterLeaves(p) == LeavesOfSeq(ChildrenOf(p))

LeavesOfSeq(cs) ==
    IF cs = <<>> THEN <<>>
    ELSE (IF ChildrenOf(cs[1]) # <<>> THEN IterLeaves(cs[1]) ELSE <<cs[1]>>)
         \o LeavesOfSeq(Tail(cs))

RECURSIVE RoutePrefix(_, _, _)
\* NiceNesting.route_prefix / NiceDocument.route_prefix
RoutePrefix(d, mt, pos) ==
    IF pos = <<>> THEN <<>>
    ELSE RoutePrefix(d, mt, Front(pos)) \o Obj(d, mt, pos).alias

\* getattr(underlying_owner, magic._name)
GetLive(acc, c) ==
    LET o == Obj(acc.doc, acc.mat, c.pos)
    IN  IF c.kind = "nestings" THEN o.kids[c.name] ELSE o.vals[c.name]

\* setattr(underlying_owner, magic._name, v), and in-place changes of the value
SetLive(acc, c, v) ==
    LET o == Obj(acc.doc, acc.mat, c.pos)
        o2 == IF c.kind = "nestings" THEN [o EXCEPT !.kids[c.name] = v]
              ELSE [o EXCEPT !.vals[c.name] = v]
    IN  IF c.pos \in DOMAIN acc.mat THEN [acc EXCEPT !.mat[c.pos] = o2]
        ELSE [acc EXCEPT !.doc = PutAt(acc.doc, c.pos, o2)]

\* field.to_raw(value) of the plain descriptors
FieldToRaw(T, f, v) ==
    CASE KindOf(T, f) = "scalar" -> ScalarToRaw(T, f, v)
      [] KindOf(T, f) = "list" -> ListToRaw(T, f, v)
      [] OTHER -> [rk \in {ToRawKey(k) : k \in DOMAIN v} |-> v[FromRawKey(rk)]]

\* if to_set is Ellipsis: ... elif to_set is not MISSING: ...
StageSet(acc, c) ==
    IF c.px.value.tag = "clear"
    THEN SetLive([acc EXCEPT !.unsetters = Put(@, c.route, "")], c, DefaultOf(c.T, c.name))
    ELSE IF c.px.value.tag = "val"
    THEN IF c.kind = "nestings"
         THEN [acc EXCEPT !.err = "NotImplementedError"]
         ELSE SetLive([acc EXCEPT !.setters = Put(@, c.route, FieldToRaw(c.T, c.name, c.px.value.v))],
                      c, c.px.value.v)
    ELSE acc

\* if to_inc is not None: ...
StageInc(acc, c) ==
    IF acc.err # "" \/ c.px.inc = <<>> THEN acc
    ELSE LET new_value == GetLive(acc, c) + c.px.inc[1]
         IN  SetLive([acc EXCEPT !.setters = Put(@, c.route, FieldToRaw(c.T, c.name, new_value))],
                     c, new_value)

\* adders[route].extend(...) of the defaultdict(list)
Extend(d, route, raws) == Put(d, route, (IF route \in DOMAIN d THEN d[route] ELSE <<>>) \o raws)

\* to_add staged as the whole container instead of the added elements
StageAddWholeList(acc, c) ==
    IF acc.err # "" \/ c.px.add = <<>> THEN acc
    ELSE LET whole == GetLive(acc, c) \o c.px.add
             a1 == [acc EXCEPT !.adders = Extend(@, c.route, FieldToRaw(c.T, c.name, whole))]
         IN  IF c.kind = "list" THEN SetLive(a1, c, whole) ELSE a1

\* if to_add: ...
StageAdd(acc, c) ==
    IF acc.err # "" \/ c.px.add = <<>> THEN acc
    ELSE LET a1 == [acc EXCEPT !.adders = Extend(@, c.route, FieldToRaw(c.T, c.name, c.px.add))]
         IN  IF c.kind = "list" THEN SetLive(a1, c, GetLive(a1, c) \o c.px.add) ELSE a1

\* list.remove(el): the first occurrence goes
RemoveFirst(lst, el) ==
    LET i == CHOOSE j \in 1..Len(lst) : lst[j] = el /\ \A h \in 1..(j - 1) : lst[h] # el
    IN  SubSeq(lst, 1, i - 1) \o SubSeq(lst, i + 1, Len(lst))

RECURSIVE RemoveEach(_, _)
\* for el in to_remove: containter.remove(el)   (ValueError if el is not there)
RemoveEach(st, els) ==
    IF els = <<>> \/ ~st.ok THEN st
    ELSE IF els[1] \in Range(st.lst)
         THEN RemoveEach([st EXCEPT !.lst = RemoveFirst(@, els[1])], Tail(els))
         ELSE [st EXCEPT !.ok = FALSE]

\* if to_remove: ...
StageRemove(acc, c) ==
    IF acc.err # "" \/ c.px.remove = <<>> THEN acc
    ELSE LET a1 == [acc EXCEPT !.removers = Extend(@, c.route, FieldToRaw(c.T, c.name, c.px.remove))]
             r == RemoveEach([lst |-> GetLive(a1, c), ok |-> TRUE], c.px.remove)
             a2 == SetLive(a1, c, r.lst)
         IN  IF r.ok THEN a2 ELSE [a2 EXCEPT !.err = "ValueError: list.remove"]

\* if to_update: ...
StageUpdate(acc, c) ==
    IF acc.err # "" \/ DOMAIN c.px.update = {} THEN acc
    ELSE IF c.kind # "dict" THEN [acc EXCEPT !.err = "SyntaxError: update"]
    ELSE LET upd == c.px.update
             dict_attr == GetLive(acc, c)
             new == [k \in DOMAIN dict_attr \cup DOMAIN upd |->
                        IF k \in DOMAIN upd THEN upd[k] ELSE dict_attr[k]]
             routes == {c.route \o <<ToRawItem(c.T, c.name, k, upd[k])[1]>> : k \in DOMAIN upd}
             sets == [r \in DOMAIN acc.setters \cup routes |->
                        IF r \in routes
                        THEN LET k == FromRawKey(Last(r)) IN ToRawItem(c.T, c.name, k, upd[k])[2]
                        ELSE acc.setters[r]]
         IN  SetLive([acc EXCEPT !.setters = sets], c, new)

\* if to_pop: ...
StagePop(acc, c) ==
    IF acc.err # "" \/ c.px.pop = <<>> THEN acc
    ELSE IF c.kind \notin {"dict", "nestings"} THEN [acc EXCEPT !.err = "SyntaxError: pop"]
    ELSE LET dict_attr == GetLive(acc, c)
             gone == Range(c.px.pop)
             new == [k \in DOMAIN dict_attr \ gone |-> dict_attr[k]]
             routes == {c.route \o <<ToRawKey(k)>> : k \in gone}
             unsets == [r \in DOMAIN acc.unsetters \cup routes |-> ""]
         IN  SetLive([acc EXCEPT !.unsetters = unsets], c, new)

\* the leaf's add / remove applied before its replace
ProcessLeafAddFirst(acc, p) ==
    IF ~OwnerIsNesting(p) THEN [acc EXCEPT !.err = "ValueError: irrelevant attribute"]
    ELSE LET pos == PosOf(base, Front(p))
             T == TypeAtPos(pos)
             name == Last(p)[2]
             c == [pos |-> pos, T |-> T, name |-> name, kind |-> KindOf(T, name),
                   route |-> RoutePrefix(acc.doc, acc.mat, pos) \o <<WireName(T, name)>>,
                   px |-> proxies[p]]
         IN  StagePop(StageUpdate(StageInc(StageSet(StageRemove(StageAdd(acc, c), c), c), c), c), c)

\* the body of "for magic in self._iter_leaves():" for one leaf
ProcessLeaf(acc, p) ==
    IF ~OwnerIsNesting(p) THEN [acc EXCEPT !.err = "ValueError: irrelevant attribute"]
    ELSE LET pos == PosOf(base, Front(p))
             T == TypeAtPos(pos)
             name == Last(p)[2]
             c == [pos |-> pos, T |-> T, name |-> name, kind |-> KindOf(T, name),
                   route |-> RoutePrefix(acc.doc, acc.mat, pos) \o <<WireName(T, name)>>,
                   px |-> proxies[p]]
         IN  StagePop(StageUpdate(StageRemove(StageAdd(StageInc(StageSet(acc, c), c), c), c), c), c)

RECURSIVE CompileLeaves(_, _)
\* the loop over the leaves; an exception ends it where it is raised
CompileLeaves(acc, leaves) ==
    IF leaves = <<>> \/ acc.err # "" THEN acc
    ELSE CompileLeaves(ProcessLeaf(acc, leaves[1]), Tail(leaves))

RECURSIVE InjectSeq(_, _, _)
\* CommandMaker._inject_nesting_branches over the whole proxy tree: a proxy's
\* materialized child is bound in the parent's mapping if the key is not there
InjectSeq(d, mt, ps) ==
    IF ps = <<>> THEN d
    ELSE LET p == ps[1]
             pos == PosOf(base, p)
         IN  IF Last(p)[1] = "item" /\ ~HasNode(d, pos)
             THEN InjectSeq(PutAt(d, pos, mt[pos]), mt, Tail(ps))
             ELSE InjectSeq(d, mt, Tail(ps))

\* the binding done for the proxies of the scope's own attributes only, without
\* the descent into the proxies below them
InjectWithoutDescent(d, mt) == InjectSeq(d, mt, SelectSeq(order, LAMBDA p : Len(p) <= 2))

InjectNestingBranches(d, mt) == InjectSeq(d, mt, order)

\* the batch form for every route, one element or more
CollapseAlwaysBatch(op, value) == [op |-> op, vals |-> value]

\* {"$each": value} if len(value) > 1 else value[0]   (and "$in" for $pull)
Collapse(op, value) ==
    IF Len(value) > 1 THEN [op |-> op, vals |-> value] ELSE [op |-> "bare", vals |-> <<value[1]>>]

\* mongo_command, sections present only if their bucket is not empty
MongoCommand(acc) ==
    (IF DOMAIN acc.setters # {} THEN "$set" :> acc.setters ELSE EmptyDict)
    @@ (IF DOMAIN acc.unsetters # {} THEN "$unset" :> acc.unsetters ELSE EmptyDict)
    @@ (IF DOMAIN acc.adders # {}
        THEN "$addToSet" :> [r \in DOMAIN acc.adders |-> Collapse("$each", acc.adders[r])]
        ELSE EmptyDict)
    @@ (IF DOMAIN acc.removers # {}
        THEN "$pull" :> [r \in DOMAIN acc.removers |-> Collapse("$in", acc.removers[r])]
        ELSE EmptyDict)

\* upsert requested for every command
UpsertAlways(acc) == TRUE

\* upsert = True where "$set" or "$addToSet" is filed
Upsert(acc) == DOMAIN acc.setters # {} \/ DOMAIN acc.adders # {}

Compiled ==
    CompileLeaves([doc |-> doc, mat |-> mat, setters |-> EmptyDict, unsetters |-> EmptyDict,
                   adders |-> EmptyDict, removers |-> EmptyDict, err |-> ""],
                  IterLeaves(<<>>))

\* __aexit__ without its "if exc is not None: return"
RaiseWithoutExcCheck ==
    /\ pc = "open"
    /\ pc' = "aborted"
    /\ doc' = Compiled.doc
    /\ UNCHANGED <<store, doc0, base, proxies, order, mat, err, calls, nstmts, deltas>>
    /\ UNCHANGED <<cvars, ovars>>

\* an exception raised in the scope body: __aexit__ gets exc and returns at once
Raise ==
    /\ pc = "open"
    /\ pc' = "aborted"
    /\ UNCHANGED <<store, doc, doc0, base, proxies, order, mat, err, calls, nstmts, deltas>>
    /\ UNCHANGED <<cvars, ovars>>

\* CommandMaker.__aexit__ with exc None, up to the await of update_one
AExit ==
    /\ pc = "open"
    /\ LET acc == Compiled
           cmd == MongoCommand(acc)
       IN  IF acc.err # ""
           THEN /\ doc' = acc.doc
                /\ mat' = acc.mat
                /\ err' = acc.err
                /\ pc' = "raised"
                /\ calls' = calls
           ELSE /\ doc' = InjectNestingBranches(acc.doc, acc.mat)
                /\ mat' = acc.mat
                /\ err' = ""
                /\ IF DOMAIN cmd = {}
                   THEN pc' = "done" /\ calls' = calls
                   ELSE /\ pc' = "sending"
                        /\ calls' = Append(calls, [filter |-> ("_id" :> doc.id),
                                                   command |-> cmd,
                                                   upsert |-> Upsert(acc)])
    /\ UNCHANGED <<store, doc0, base, proxies, order, nstmts, deltas>>
    /\ UNCHANGED <<cvars, ovars>>

\* ------------------------------------------------------------------ the store
RECURSIVE RawHas(_, _)
RawHas(rec, route) ==
    /\ route[1] \in DOMAIN rec
    /\ Len(route) = 1 \/ RawHas(rec[route[1]], Tail(route))

RECURSIVE RawGet(_, _)
RawGet(rec, route) ==
    IF Len(route) = 1 THEN rec[route[1]] ELSE RawGet(rec[route[1]], Tail(route))

RECURSIVE RawSet(_, _, _)
\* $set of one dotted path: embedded documents are created as needed
RawSet(rec, route, v) ==
    IF Len(route) = 1 THEN Put(rec, route[1], v)
    ELSE Put(rec, route[1],
             RawSet(IF route[1] \in DOMAIN rec THEN rec[route[1]] ELSE EmptyDict, Tail(route), v))

RECURSIVE RawUnset(_, _)
\* $unset of one dotted path
RawUnset(rec, route) ==
    IF ~RawHas(rec, route) THEN rec
    ELSE IF Len(route) = 1 THEN Drop(rec, route[1])
    ELSE Put(rec, route[1], RawUnset(rec[route[1]], Tail(route)))

RECURSIVE AddUnique(_, _)
\* $addToSet: an element already in the array is not inserted again
AddUnique(arr, els) ==
    IF els = <<>> THEN arr
    ELSE AddUnique(IF els[1] \in Range(arr) THEN arr ELSE Append(arr, els[1]), Tail(els))

\* $pull: every element equal to one of els goes
PullAll(arr, els) ==
    LET Keep(e) == e \notin Range(els) IN SelectSeq(arr, Keep)

RECURSIVE ApplySection(_, _, _, _)
ApplySection(rec, op, section, todo) ==
    IF todo = {} THEN rec
    ELSE LET r == CHOOSE x \in todo : TRUE
             next ==
               CASE op = "$set" -> RawSet(rec, r, section[r])
                 [] op = "$unset" -> RawUnset(rec, r)
                 [] op = "$addToSet" ->
                      RawSet(rec, r, AddUnique(IF RawHas(rec, r) THEN RawGet(rec, r) ELSE <<>>,
                                               section[r].vals))
                 [] OTHER ->
                      IF RawHas(rec, r) THEN RawSet(rec, r, PullAll(RawGet(rec, r), section[r].vals))
                      ELSE rec
         IN  ApplySection(next, op, section, todo \ {r})

Section(cmd, op) == IF op \in DOMAIN cmd THEN cmd[op] ELSE EmptyDict

\* what update_one(filter, command, upsert) does to the matching record
UpdateOne(rec, call) ==
    IF ~StoreHas(rec) /\ ~call.upsert THEN rec
    ELSE LET r0 == IF StoreHas(rec) THEN rec ELSE call.filter
             r1 == ApplySection(r0, "$set", Section(call.command, "$set"),
                                DOMAIN Section(call.command, "$set"))
             r2 == ApplySection(r1, "$unset", Section(call.command, "$unset"),
                                DOMAIN Section(call.command, "$unset"))
             r3 == ApplySection(r2, "$addToSet", Section(call.command, "$addToSet"),
                                DOMAIN Section(call.command, "$addToSet"))
         IN  ApplySection(r3, "$pull", Section(call.command, "$pull"),
                          DOMAIN Section(call.command, "$pull"))

\* the awaited update_one returns: __aexit__ returns
UpdateAck ==
    /\ pc = "sending"
    /\ store' = UpdateOne(store, Last(calls))
    /\ pc' = "done"
    /\ UNCHANGED <<doc, doc0, base, proxies, order, mat, err, calls, nstmts, deltas>>
    /\ UNCHANGED <<cvars, ovars>>

\* the awaited update_one raises: the exception leaves __aexit__
UpdateFail ==
    /\ pc = "sending"
    /\ pc' = "sendfailed"
    /\ UNCHANGED <<store, doc, doc0, base, proxies, order, mat, err, calls, nstmts, deltas>>
    /\ UNCHANGED <<cvars, ovars>>

\* ------------------------------------------------------------------ specification
\* the chains that can be written in a scope opened on the node at base
Paths == PathsOf(TypeAtPos(base))
AttrPaths == {p \in Paths : IsAttr(p)}

Next ==
    \/ \E p \in Paths : Touch(p)
    \/ \E p \in AttrPaths : \E v \in AssignVals(KindOfPath(base, p)) : SetAttr(p, v)
    \/ \E p \in AttrPaths : \E d \in Deltas : IAdd(p, d)
    \/ \E p \in AttrPaths : \E el \in Elems : AppendTo(p, el)
    \/ \E p \in AttrPaths : \E el \in Elems : RemoveFrom(p, el)
    \/ \E p \in AttrPaths : \E k \in Keys : SetItem(p, k, "w")
    \/ \E p \in AttrPaths : \E k \in Keys : PopKey(p, k)
    \/ Raise
    \/ AExit
    \/ UpdateAck
    \/ UpdateFail

Spec == Init /\ [][Next]_vars

\* ------------------------------------------------------------------ properties
\* what a proxy has staged
HasStaged(px) ==
    \/ px.value.tag # "missing"
    \/ px.inc # <<>>
    \/ px.add # <<>>
    \/ px.remove # <<>>
    \/ DOMAIN px.update # {}
    \/ px.pop # <<>>

AnyStaged == \E p \in DOMAIN proxies : HasStaged(proxies[p])

\* the absolute route of the attribute an attribute proxy stands for
RouteOf(p) ==
    LET pos == PosOf(base, Front(p))
    IN  RoutePrefix(doc, mat, pos) \o <<WireName(TypeAtPos(pos), Last(p)[2])>>

\* __aexit__ ran to its end or to the await without raising
Exited == pc \in {"sending", "done"}
\* the command of the scope ("no command": the empty mapping)
Command == IF calls = <<>> THEN EmptyDict ELSE Last(calls).command
InSection(op, route) == route \in DOMAIN Section(Command, op)

\* C1: a scope whose body raised issued no store call and left the live graph
\* (all field values, all nested-map key sets) as it was when the scope opened
C1_AbortLeavesNoTrace ==
    pc = "aborted" => calls = <<>> /\ doc = doc0

C1_Witness ==
    /\ pc = "aborted"
    /\ DOMAIN mat # {}
    /\ \E p \in DOMAIN proxies : proxies[p].value.tag = "val"

\* C2: if the update_one call of scope exit fails, the live graph is as it was
\* before the scope
C2_SendFailureLeavesGraph ==
    pc = "sendfailed" => doc = doc0

\* C3: a scope exit that fails with a schema or topology error made no store
\* call and left the live graph as it was
FatalSchemaErrors ==
    {"ValueError: irrelevant attribute", "SyntaxError: update", "SyntaxError: pop"}

C3_FatalExitAllOrNothing ==
    pc = "raised" /\ err \in FatalSchemaErrors => calls = <<>> /\ doc = doc0

\* C4: a scope that exits without exception and staged nothing issues no store
\* call and leaves the live graph unchanged
C4_NoopScope ==
    Exited /\ ~AnyStaged => calls = <<>> /\ doc = doc0

\* the live value of attribute name of a node
LiveField(node, name) == IF name \in DOMAIN node.kids THEN node.kids[name] ELSE node.vals[name]
\* position of the node owning the attribute an attribute proxy stands for
OwnerPos(p) == PosOf(base, Front(p))
AttrProxies == {p \in DOMAIN proxies : IsAttr(p)}
\* the proxy has staged exactly the given record of operations
OnlyStaged(p, what) == proxies[p] = what

\* C5: a scope that exits without exception with something staged issued exactly
\* one update_one call, filtered by the root document's _id; no scope issues
\* more than one call
C5_ExactlyOneCall ==
    /\ Len(calls) <= 1
    /\ Exited /\ AnyStaged => Len(calls) = 1 /\ calls[1].filter = ("_id" :> doc0.id)

\* the command has the entries of everything staged on attribute proxy p
EntriesFor(p) ==
    LET px == proxies[p]
        r == RouteOf(p)
    IN  /\ px.value.tag = "val" => InSection("$set", r)
        /\ px.value.tag = "clear" => InSection("$unset", r)
        /\ px.inc # <<>> => InSection("$set", r)
        /\ px.add # <<>> =>
              /\ InSection("$addToSet", r)
              /\ \A i \in 1..Len(px.add) : ToStr(px.add[i]) \in Range(Command["$addToSet"][r].vals)
        /\ px.remove # <<>> =>
              /\ InSection("$pull", r)
              /\ \A i \in 1..Len(px.remove) : ToStr(px.remove[i]) \in Range(Command["$pull"][r].vals)
        /\ \A k \in DOMAIN px.update : InSection("$set", r \o <<ToRawKey(k)>>)
        /\ \A k \in Range(px.pop) : InSection("$unset", r \o <<ToRawKey(k)>>)

\* C6: every operation staged in a scope that exits without exception has its
\* entry in the emitted command
C6_NothingDropped ==
    Exited => \A p \in AttrProxies : EntriesFor(p)

\* the live attribute equals the one rehydrated (NiceDocument(record)) from the
\* store's record; a node the record does not have counts as one with every
\* field at its default, and nested-map attributes are compared by their keys
FieldAgrees(p) ==
    LET pos == OwnerPos(p)
        re == FoundDoc(store)
        T == TypeAtPos(pos)
        f == Last(p)[2]
        live == LiveField(NodeAt(doc, pos), f)
        back == IF HasNode(re, pos) THEN LiveField(NodeAt(re, pos), f) ELSE DefaultOf(T, f)
    IN  /\ HasNode(doc, pos)
        /\ IF KindOf(T, f) = "nestings" THEN DOMAIN live = DOMAIN back ELSE live = back

\* C7: after a successful commit every attribute touched in the scope equals
\* the attribute rehydrated from the store's record after the command
C7_CacheMatchesStore ==
    pc = "done" /\ calls # <<>> =>
        \A p \in AttrProxies : HasStaged(proxies[p]) => FieldAgrees(p)

\* p staged only an assignment of its scalar field's default
DefaultWrite(p) ==
    /\ KindOfPath(base, p) = "scalar"
    /\ OnlyStaged(p, CommandMakerInit(Val(DefaultOf(TypeAtPos(OwnerPos(p)), Last(p)[2]))))

\* C8: assigning a scalar field its default produces no command entry for the
\* field, and no command at all if nothing else was staged
C8_DefaultWriteIsNoop ==
    Exited => \A p \in AttrProxies : DefaultWrite(p) =>
        /\ \A op \in DOMAIN Command : ~InSection(op, RouteOf(p))
        /\ (\A q \in DOMAIN proxies \ {p} : ~HasStaged(proxies[q])) => calls = <<>>

\* C9: an attribute cleared with Ellipsis gets an unset entry "" at its route,
\* no replace entry, and the live attribute becomes the field default
C9_ExplicitClear ==
    Exited => \A p \in AttrProxies : OnlyStaged(p, CommandMakerInit(Ellipsis)) =>
        /\ InSection("$unset", RouteOf(p))
        /\ Section(Command, "$unset")[RouteOf(p)] = ""
        /\ ~InSection("$set", RouteOf(p))
        /\ LiveField(NodeAt(doc, OwnerPos(p)), Last(p)[2])
             = DefaultOf(TypeAtPos(OwnerPos(p)), Last(p)[2])

\* p staged only the append of the one element el
OneAppend(p, el) ==
    /\ KindOfPath(base, p) = "list"
    /\ OnlyStaged(p, [CommandMakerInit(MISSING) EXCEPT !.add = <<el>>])

\* C10: one element appended to a list field gives an $addToSet entry at the
\* field's route holding that element alone, no replace of the list, and the
\* live list is the pre-scope list with the element appended
C10_AppendIsMinimal ==
    Exited => \A p \in AttrProxies : \A el \in Elems : OneAppend(p, el) =>
        /\ InSection("$addToSet", RouteOf(p))
        /\ Section(Command, "$addToSet")[RouteOf(p)] = [op |-> "bare", vals |-> <<ToStr(el)>>]
        /\ ~InSection("$set", RouteOf(p))
        /\ LiveField(NodeAt(doc, OwnerPos(p)), Last(p)[2])
             = LiveField(NodeAt(doc0, OwnerPos(p)), Last(p)[2]) \o <<el>>

C10_Witness ==
    /\ pc = "done"
    /\ doc0.vals["items"] = <<1>>
    /\ <<<<"attr", "items">>>> \in DOMAIN proxies
    /\ OneAppend(<<<<"attr", "items">>>>, 2)
    /\ doc.vals["items"] = <<1, 2>>

\* C11: an update_one call is sent with upsert=True exactly when its command
\* has a $set or an $addToSet section; a command of $unset and/or $pull
\* sections alone is sent with upsert=False
C11_UpsertRule ==
    \A i \in 1..Len(calls) :
        calls[i].upsert <=>
            ("$set" \in DOMAIN calls[i].command \/ "$addToSet" \in DOMAIN calls[i].command)

C11_Witness ==
    /\ calls # <<>>
    /\ DOMAIN Last(calls).command = {"$unset", "$pull"}
    /\ ~Last(calls).upsert

\* the operand of one route: the bare raw element for one staged element, the
\* batch form listing all of them for more than one
Operand(entry, batch, raws) ==
    IF Len(raws) = 1 THEN entry = [op |-> "bare", vals |-> raws]
    ELSE Len(raws) > 1 /\ entry = [op |-> batch, vals |-> raws]

\* the raw form of the elements an attribute proxy staged
RawElems(p, els) == ListToRaw(TypeAtPos(OwnerPos(p)), Last(p)[2], els)

\* C12: in every emitted command each $addToSet / $pull route carries the bare
\* element if one element was staged for it and the $each / $in form with all
\* staged elements if more were, and a section is present only with a route in it
C12_OperandCollapsing ==
    \A i \in 1..Len(calls) :
        LET cmd == calls[i].command
        IN  /\ DOMAIN cmd \subseteq {"$set", "$unset", "$addToSet", "$pull"}
            /\ \A op \in DOMAIN cmd : DOMAIN cmd[op] # {}
            /\ \A r \in DOMAIN Section(cmd, "$addToSet") :
                  \E p \in AttrProxies :
                      /\ RouteOf(p) = r
                      /\ Operand(cmd["$addToSet"][r], "$each", RawElems(p, proxies[p].add))
            /\ \A r \in DOMAIN Section(cmd, "$pull") :
                  \E p \in AttrProxies :
                      /\ RouteOf(p) = r
                      /\ Operand(cmd["$pull"][r], "$in", RawElems(p, proxies[p].remove))

C12_Witness ==
    /\ calls # <<>>
    /\ "$addToSet" \in DOMAIN Last(calls).command
    /\ \E r \in DOMAIN Last(calls).command["$addToSet"] :
          Last(calls).command["$addToSet"][r] = [op |-> "$each", vals |-> <<"1", "2">>]

\* ------------------------------------------------------------------ deep graphs
\* the records the store may hold for a Deep document
DeepRecs ==
    {"_id" :> DocId,
     ("_id" :> DocId) @@ ("outer" :> ("A" :> ("in" :> ("A" :> ("x" :> "1")))))}

\* NiceCollection.find on a miss, for a collection of Deep documents
FoundDeep(s) == DocumentWrapper("Deep", IF StoreHas(s) THEN s ELSE ("_id" :> DocId))

InitDeep ==
    /\ store \in DeepRecs \cup {EmptyDict}
    /\ doc = FoundDeep(store)
    /\ doc0 = doc
    /\ base \in Positions(doc)
    /\ proxies = (<<>> :> CommandMakerInit(MISSING))
    /\ order = <<>>
    /\ mat = EmptyDict
    /\ pc = "open"
    /\ err = ""
    /\ calls = <<>>
    /\ nstmts = 0
    /\ deltas = EmptyDict
    /\ CollectionIdle
    /\ ObjectsIdle

\* the statements that apply to the fields of Deep, Mid and Sub
NextDeep ==
    \/ \E p \in Paths : Touch(p)
    \/ \E p \in AttrPaths : \E v \in AssignVals(KindOfPath(base, p)) : SetAttr(p, v)
    \/ \E p \in AttrPaths : \E d \in Deltas : IAdd(p, d)
    \/ \E p \in AttrPaths : \E k \in Keys : PopKey(p, k)
    \/ Raise
    \/ AExit
    \/ UpdateAck
    \/ UpdateFail

SpecDeep == InitDeep /\ [][NextDeep]_vars

RECURSIVE WirePrefix(_)
\* the chain of wire names (alias, else attribute name) and raw keys from the
\* root to the node at a position, read off the schema
WirePrefix(pos) ==
    IF pos = <<>> THEN <<>>
    ELSE WirePrefix(Front(pos))
         \o <<WireName(TypeAtPos(Front(pos)), Last(pos)[1]), ToRawKey(Last(pos)[2])>>

WireRoute(p) == WirePrefix(OwnerPos(p)) \o <<WireName(TypeAtPos(OwnerPos(p)), Last(p)[2])>>

\* the leaves __aexit__ compiled
Leaves == Range(IterLeaves(<<>>))
AllRoutes(cmd) == UNION {DOMAIN cmd[op] : op \in DOMAIN cmd}

\* C13: every entry a compiled leaf gets sits at the chain of wire names and raw
\* keys from the root to its field (outer.K1.in.K2.x three levels down), and
\* the command has no other route; loaded and materialized children alike
C13_PathCorrectness ==
    Exited =>
        /\ \A p \in Leaves :
              LET px == proxies[p]
                  r == WireRoute(p)
              IN  /\ px.value.tag = "val" \/ px.inc # <<>> => InSection("$set", r)
                  /\ px.value.tag = "val" /\ px.inc = <<>> =>
                        Command["$set"][r]
                          = FieldToRaw(TypeAtPos(OwnerPos(p)), Last(p)[2], px.value.v)
                  /\ px.value.tag = "clear" => InSection("$unset", r)
                  /\ \A k \in Range(px.pop) : InSection("$unset", r \o <<ToRawKey(k)>>)
        /\ AllRoutes(Command) \subseteq
              {WireRoute(p) : p \in Leaves}
              \cup UNION {{WireRoute(p) \o <<ToRawKey(k)>> : k \in Range(proxies[p].pop)}
                            : p \in Leaves}

C13_Witness ==
    /\ Exited
    /\ HasNode(doc0, <<<<"outer", "a">>, <<"inner", "a">>>>)
    /\ ~HasNode(doc0, <<<<"outer", "b">>>>)
    /\ calls # <<>>
    /\ DOMAIN Section(Command, "$set")
         = {<<"outer", "A", "in", "A", "x">>, <<"outer", "B", "in", "A", "x">>}

\* ------------------------------------------------------------------ the identity cache
\* calls started on the collection, and clock advances, in one behaviour
MaxOps == 3
MaxTicks == 2

\* the lifetime policies: unset, never cache, expire after 5 of disuse
Lifetimes == {NoLifetime, 0, 5}
\* the amounts the clock advances by
Ticks == {5, 65}
\* the store's collection at the start: a record for A, none for B
CollRecs == {"A" :> (("_id" :> "A") @@ ("num" :> "1"))}

\* NiceDocument.minimal
Minimal(id) ==
    [type |-> "Doc",
     vals |-> [f \in FieldsOf("Doc") |-> DefaultOf("Doc", f)],
     kids |-> [f \in NestingsOf("Doc") |-> NestingsFromRaw("Doc", f, EmptyDict)],
     id |-> id]

\* every policy is taken to cache
CachesAlways == TRUE

\* only a positive lifetime is taken to cache
CachesOnlyFinite == lifetime > 0

\* find: "if self.cache_lifetime is None or self.cache_lifetime > 0"
Caches == lifetime = NoLifetime \/ lifetime > 0

\* _verify_cache_integrity with its throttle left out
SweepRunsUnthrottled(t) == lifetime # NoLifetime /\ lifetime # 0

\* _verify_cache_integrity, whose "now = time()" reads t, gets past its two
\* early returns
SweepRuns(t) ==
    /\ lifetime # NoLifetime /\ lifetime # 0
    /\ ~(t - last_cache_check < SweepInterval)

\* bad_keys compared with >= instead of >
ExpiredOrDue(c, hp, t) == {k \in DOMAIN c : t - hp[c[k]].used >= lifetime}

\* bad_keys of _verify_cache_integrity
Expired(c, hp, t) == {k \in DOMAIN c : t - hp[c[k]].used > lifetime}

\* the keys _verify_cache_integrity pops when called on cache c with instances hp
Swept(c, hp, t) == IF SweepRuns(t) THEN Expired(c, hp, t) ELSE {}

\* self._verify_cache_integrity()
VerifyCacheIntegrity(c, hp, t) ==
    /\ cache' = [k \in DOMAIN c \ Swept(c, hp, t) |-> c[k]]
    /\ last_cache_check' = IF SweepRuns(t) THEN t ELSE last_cache_check
    /\ evictedAt' = IF Swept(c, hp, t) # {} THEN t ELSE evictedAt

NewHandle == Cardinality(DOMAIN heap) + 1
NewCall == nops + 1

\* the clock between two readings of time() in one call: it stands, or moves on
ClockMoves(d) ==
    \/ d = 0 /\ UNCHANGED <<now, nticks>>
    \/ d \in Ticks /\ nticks < MaxTicks /\ nticks' = nticks + 1 /\ now' = now + d

\* the hit branch of find and of get_cached_or_minimal: "doc._last_used_at =
\* time()" reads the clock, and _verify_cache_integrity reads it again, d later
Hit(op, id) ==
    \E d \in {0} \cup Ticks :
        LET h == cache[id]
            hp == [heap EXCEPT ![h].used = now]
        IN  /\ ClockMoves(d)
            /\ heap' = hp
            /\ VerifyCacheIntegrity(cache, hp, now + d)
            /\ lastret' = [op |-> op, id |-> id, h |-> h, hit |-> TRUE, empty |-> FALSE, reads |-> 0]
            /\ handed' = [k \in Ids |->
                            IF k \in Swept(cache, hp, now + d) THEN {}
                            ELSE IF k = id /\ op = "find" THEN handed[k] \cup {h}
                            ELSE handed[k]]
            /\ UNCHANGED <<coll, pending, delgen>>

\* find(id) up to its return (hit) or its await of find_one (miss)
FindStart(id) ==
    /\ nops < MaxOps
    /\ nops' = NewCall
    /\ IF id \in DOMAIN cache
       THEN Hit("find", id)
       ELSE /\ VerifyCacheIntegrity(cache, heap, now)
            /\ handed' = [k \in Ids |-> IF k \in Swept(cache, heap, now) THEN {} ELSE handed[k]]
            /\ pending' = Put(pending, NewCall,
                              [op |-> "find", id |-> id, gen |-> delgen[id]])
            /\ lastret' = NoRet
            /\ UNCHANGED <<coll, heap, delgen, now, nticks>>
    /\ UNCHANGED <<lifetime, svars, ovars>>

\* find_one({"_id": id}) returns what the store holds, and find(id) runs on to
\* its return
FindResume(t) ==
    /\ pending[t].op = "find"
    /\ LET id == pending[t].id
           found == id \in DOMAIN coll
           data == IF found THEN coll[id] ELSE ("_id" :> id)
           d == DocumentWrapper("Doc", data)
           h == NewHandle
       IN  /\ heap' = Put(heap, h, [doc |-> d, used |-> now, gen |-> pending[t].gen])
           /\ cache' = IF Caches THEN Put(cache, d.id, h) ELSE cache
           /\ handed' = [handed EXCEPT ![id] = @ \cup {h}]
           /\ lastret' = [op |-> "find", id |-> id, h |-> h, hit |-> FALSE,
                          empty |-> ~found, reads |-> 1]
    /\ pending' = Drop(pending, t)
    /\ UNCHANGED <<coll, lifetime, last_cache_check, now, nops, nticks, delgen, 
                   evictedAt, svars, ovars>>

\* delete(id) up to its await of delete_one
DeleteStart(id) ==
    /\ nops < MaxOps
    /\ nops' = NewCall
    /\ pending' = Put(pending, NewCall,
                      [op |-> "delete", id |-> id, gen |-> delgen[id]])
    /\ lastret' = NoRet
    /\ UNCHANGED <<coll, cache, heap, lifetime, last_cache_check, now, nticks, handed,
                   delgen, evictedAt, svars, ovars>>

\* delete_one({"_id": id}) is carried out by the store and returns, and
\* delete(id) runs on: self.cache.pop(id, None)
DeleteResume(t) ==
    /\ pending[t].op = "delete"
    /\ LET id == pending[t].id
       IN  /\ coll' = Drop(coll, id)
           /\ cache' = Drop(cache, id)
           /\ handed' = [handed EXCEPT ![id] = {}]
           /\ delgen' = [delgen EXCEPT ![id] = @ + 1]
           /\ lastret' = [op |-> "delete", id |-> id, h |-> 0, hit |-> FALSE,
                          empty |-> FALSE, reads |-> 0]
    /\ pending' = Drop(pending, t)
    /\ UNCHANGED <<heap, lifetime, last_cache_check, now, nops, nticks,
                   evictedAt, svars, ovars>>

\* the miss branch with the placeholder put into the cache
MinimalMissCaching(id) ==
    /\ heap' = Put(heap, NewHandle, [doc |-> Minimal(id), used |-> now, gen |-> delgen[id]])
    /\ cache' = Put(cache, id, NewHandle)
    /\ lastret' = [op |-> "gcm", id |-> id, h |-> NewHandle, hit |-> FALSE,
                   empty |-> FALSE, reads |-> 0]
    /\ UNCHANGED <<coll, last_cache_check, pending, handed, delgen, evictedAt, now, nticks>>

\* the miss branch of get_cached_or_minimal: document_wrapper.minimal(id, self)
MinimalMiss(id) ==
    /\ heap' = Put(heap, NewHandle, [doc |-> Minimal(id), used |-> now, gen |-> delgen[id]])
    /\ lastret' = [op |-> "gcm", id |-> id, h |-> NewHandle, hit |-> FALSE,
                   empty |-> FALSE, reads |-> 0]
    /\ UNCHANGED <<coll, cache, last_cache_check, pending, handed, delgen, evictedAt, now, nticks>>

\* get_cached_or_minimal(id)
GetCachedOrMinimal(id) ==
    /\ nops < MaxOps
    /\ nops' = NewCall
    /\ IF id \in DOMAIN cache THEN Hit("gcm", id) ELSE MinimalMiss(id)
    /\ UNCHANGED <<lifetime, svars, ovars>>

\* a scope on instance h, whose n is 0, commits "cmd.n = 1": the live field is set and
\* update_one({"_id": id}, {"$set": {"num": "1"}}, upsert=True) reaches the store
ScopeCommit(h) ==
    /\ nops < MaxOps
    /\ nops' = NewCall
    /\ heap[h].doc.vals["n"] = 0
    /\ heap' = [heap EXCEPT ![h].doc.vals["n"] = 1]
    /\ LET id == heap[h].doc.id
           rec == IF id \in DOMAIN coll THEN coll[id] ELSE ("_id" :> id)
       IN  coll' = Put(coll, id, Put(rec, WireName("Doc", "n"), ScalarToRaw("Doc", "n", 1)))
    /\ lastret' = NoRet
    /\ UNCHANGED <<cache, lifetime, last_cache_check, now, pending, nticks, handed,
                   delgen, evictedAt, svars, ovars>>

\* time() moves on
Tick(d) ==
    /\ nticks < MaxTicks
    /\ nticks' = nticks + 1
    /\ now' = now + d
    /\ UNCHANGED <<coll, cache, heap, lifetime, last_cache_check, pending, nops,
                   lastret, handed, delgen, evictedAt, svars, ovars>>

\* no scope is open in the behaviours of the cache
ScopeIdle ==
    /\ store = EmptyDict
    /\ doc = FoundDoc(store)
    /\ doc0 = doc
    /\ base = <<>>
    /\ proxies = (<<>> :> CommandMakerInit(MISSING))
    /\ order = <<>>
    /\ mat = EmptyDict
    /\ pc = "idle"
    /\ err = ""
    /\ calls = <<>>
    /\ nstmts = 0
    /\ deltas = EmptyDict

InitCache ==
    /\ ScopeIdle
    /\ ObjectsIdle
    /\ now = 0
    /\ \E L \in Lifetimes : CollectionInit(L, now)
    /\ coll \in CollRecs
    /\ heap = EmptyDict
    /\ pending = EmptyDict
    /\ nops = 0
    /\ nticks = 0
    /\ lastret = NoRet
    /\ handed = [id \in Ids |-> {}]
    /\ delgen = [id \in Ids |-> 0]
    /\ evictedAt = -1

NextCache ==
    \/ \E id \in Ids : FindStart(id)
    \/ \E t \in DOMAIN pending : FindResume(t)
    \/ \E id \in Ids : DeleteStart(id)
    \/ \E t \in DOMAIN pending : DeleteResume(t)
    \/ \E id \in Ids : GetCachedOrMinimal(id)
    \/ \E h \in DOMAIN heap : ScopeCommit(h)
    \/ \E d \in Ticks : Tick(d)

SpecCache == InitCache /\ [][NextCache]_vars

\* C14: with caching enabled, the find(id) calls that returned since id last
\* left the cache (by delete or by a sweep) all returned one and the same
\* instance, overlapping calls included
C14_OneInstancePerId ==
    Caches => \A id \in Ids : Cardinality(handed[id]) <= 1

\* C15: an id in the cache was put there by a find(id) that was invoked after
\* every delete(id) that has returned
C15_DeleteEvicts ==
    \A id \in DOMAIN cache : heap[cache[id]].gen = delgen[id]

\* the step starts a find(id)
FindStarted(id) ==
    /\ nops' = nops + 1
    /\ \/ lastret'.op = "find" /\ lastret'.id = id
       \/ /\ NewCall \in DOMAIN pending'
          /\ pending'[NewCall].op = "find"
          /\ pending'[NewCall].id = id

\* a find that missed and got nothing from the store has returned
MissedEmpty(r) == r.op = "find" /\ ~r.hit /\ r.empty

\* C16: a find(id) that misses and gets nothing from the store returns a
\* document with identifier id, plain fields at their defaults and empty nested
\* maps, as minimal(id) has them; unless the lifetime is 0 the document is then
\* cached, and a find(id) that follows is a hit on the same instance with no
\* store read
C16_FindMissGivesEmptyDocument ==
    [][/\ MissedEmpty(lastret') =>
            LET d == heap'[lastret'.h].doc
                m == Minimal(lastret'.id)
            IN  /\ d.id = lastret'.id
                /\ d.vals = m.vals
                /\ d.kids = m.kids
                /\ lifetime # 0 =>
                      lastret'.id \in DOMAIN cache' /\ cache'[lastret'.id] = lastret'.h
       /\ MissedEmpty(lastret) /\ lifetime # 0 /\ FindStarted(lastret.id) =>
            /\ lastret'.op = "find" /\ lastret'.hit
            /\ lastret'.h = lastret.h
            /\ lastret'.reads = 0
            /\ pending' = pending
      ]_vars

C16_Witness ==
    /\ nops = 2
    /\ lastret.op = "find" /\ lastret.id = "B" /\ lastret.hit
    /\ DOMAIN heap = {1}
    /\ heap[1].doc.id = "B"

\* C17: with lifetime 0 the cache is empty in every state, and every find that
\* returned was a miss that read the store
C17_NeverCache ==
    lifetime = 0 =>
        /\ cache = EmptyDict
        /\ lastret.op = "find" => ~lastret.hit /\ lastret.reads = 1

C17_Witness ==
    /\ lifetime = 0
    /\ nops = 3
    /\ lastret.op = "find"
    /\ Cardinality(DOMAIN heap) >= 2
    /\ \E h \in DOMAIN heap : heap[h].doc.vals["n"] = 1

\* C18: get_cached_or_minimal(id) on a miss makes no store call, leaves the
\* cache as it is and returns a new instance with identifier id and every field
\* at its default; on a hit it returns the cached instance
C18_PlaceholderNotCached ==
    [][nops' = nops + 1 /\ lastret'.op = "gcm" =>
          IF lastret'.hit
          THEN lastret'.id \in DOMAIN cache /\ lastret'.h = cache[lastret'.id]
          ELSE /\ lastret'.id \notin DOMAIN cache
               /\ cache' = cache
               /\ pending' = pending
               /\ coll' = coll
               /\ lastret'.h \notin DOMAIN heap
               /\ heap'[lastret'.h].doc = Minimal(lastret'.id)
      ]_vars

C18_Witness ==
    /\ lastret.op = "gcm" /\ ~lastret.hit
    /\ DOMAIN cache = Ids \ {lastret.id}

\* C19: a sweep that runs at time now (the clock as the sweep reads it), with
\* lifetime L > 0, pops exactly the entries with now - last use > L and keeps
\* the others as they are
C19_SweepEvictsExpired ==
    [][last_cache_check' # last_cache_check =>
          /\ lifetime > 0
          /\ DOMAIN cache' = {k \in DOMAIN cache : ~(now' - heap'[cache[k]].used > lifetime)}
          /\ \A k \in DOMAIN cache' : cache'[k] = cache[k]
      ]_vars

\* L = 5, A and B accessed at 0, A accessed again at 70: B is gone, A is cached
C19_Witness ==
    /\ lifetime = 5
    /\ nops = 3
    /\ now = 70
    /\ last_cache_check = 70
    /\ DOMAIN cache = {"A"}
    /\ heap[cache["A"]].used = 70
    /\ \E h \in DOMAIN heap : heap[h].doc.id = "B" /\ heap[h].used = 0

\* the step completes a delete(id)
DeleteReturned(id) ==
    \E t \in DOMAIN pending \ DOMAIN pending' : pending[t].op = "delete" /\ pending[t].id = id

\* C20: an id leaves the cache only when a delete(id) completes or in a sweep,
\* and a sweep evicts only with a positive lifetime, 60 or more after the
\* previous sweep (or the construction) and 60 or more after the previous
\* evicting sweep
C20_SweepThrottled ==
    [][\A id \in DOMAIN cache \ DOMAIN cache' :
          \/ DeleteReturned(id)
          \/ /\ lifetime > 0
             /\ now' - last_cache_check >= SweepInterval
             /\ evictedAt = -1 \/ now' - evictedAt >= SweepInterval
      ]_vars

\* two evicting sweeps: A, used at 0, went at 65 and B, used at 65, at 130
C20_Witness ==
    /\ nops = 3
    /\ now = 130
    /\ evictedAt = 130
    /\ cache = EmptyDict
    /\ \A id \in Ids : delgen[id] = 0
    /\ \E h \in DOMAIN heap : heap[h].doc.id = "B" /\ heap[h].used = 65

RECURSIVE TakeOut(_, _)
\* lst with one occurrence (the first) of each element of els taken out, in turn
TakeOut(lst, els) ==
    IF els = <<>> THEN lst
    ELSE LET i == CHOOSE j \in 1..Len(lst) : lst[j] = els[1] /\ \A h \in 1..(j - 1) : lst[h] # els[1]
         IN  TakeOut(SubSeq(lst, 1, i - 1) \o SubSeq(lst, i + 1, Len(lst)), Tail(els))

\* C21: a list attribute that got a replace and add / remove operations in one
\* scope, staged in any order, is after the exit the replacement value with the
\* added elements appended and the removed elements taken out
C21_ReplaceBeforeAddRemove ==
    Exited => \A p \in AttrProxies :
        KindOfPath(base, p) = "list" /\ proxies[p].value.tag = "val" =>
            LiveField(NodeAt(doc, OwnerPos(p)), Last(p)[2])
              = TakeOut(proxies[p].value.v \o proxies[p].add, proxies[p].remove)

C21_Witness ==
    /\ Exited
    /\ <<<<"attr", "items">>>> \in DOMAIN proxies
    /\ proxies[<<<<"attr", "items">>>>].value = Val(<<2>>)
    /\ proxies[<<<<"attr", "items">>>>].add = <<1>>
    /\ doc0.vals["items"] = <<1>>
    /\ doc.vals["items"] = <<2, 1>>

RECURSIVE Sum(_)
Sum(ds) == IF ds = <<>> THEN 0 ELSE ds[1] + Sum(Tail(ds))

\* the value "+=" starts from: the replacement staged in the scope, else the live
\* value when the scope was opened (a materialized owner holds the default)
IncStart(p) ==
    LET pos == OwnerPos(p)
        name == Last(p)[2]
    IN  IF proxies[p].value.tag = "val" THEN proxies[p].value.v
        ELSE IF HasNode(doc0, pos) THEN NodeAt(doc0, pos).vals[name]
        ELSE DefaultOf(TypeAtPos(pos), name)

\* C22: after the exit an attribute incremented in the scope holds its value at
\* commit (after a replace of the same scope) plus the sum of all deltas staged
\* on it; the "$set" section carries to_raw of that live value and the command
\* has no "$inc" section
C22_IncrementAddsEveryDelta ==
    Exited => \A p \in DOMAIN deltas : proxies[p].value.tag # "clear" =>
        LET pos == OwnerPos(p)
            name == Last(p)[2]
            live == NodeAt(doc, pos).vals[name]
        IN  /\ live = IncStart(p) + Sum(deltas[p])
            /\ InSection("$set", RouteOf(p))
            /\ Section(Command, "$set")[RouteOf(p)] = ScalarToRaw(TypeAtPos(pos), name, live)
            /\ "$inc" \notin DOMAIN Command

\* the leaf proxies of plain attributes of the child at pos that staged a
\* replacement and no increment
WrittenTo(pos) ==
    {p \in AttrProxies : /\ OwnerPos(p) = pos
                         /\ proxies[p].value.tag = "val"
                         /\ proxies[p].inc = <<>>}

\* C23: while the body runs the live graph is as it was when the scope opened
\* and holds none of the children made for absent keys; a child once made for a
\* key stays the child of that key, and its proxy stays, whatever the body does
\* next; after the exit every such child is in the live graph under its key,
\* at every depth, with the values written to it
C23_Step ==
    /\ pc' = "open" => /\ doc' = doc0'
                       /\ \A pos \in DOMAIN mat' : ~HasNode(doc', pos)
    /\ pc = "open" /\ pc' = "open" =>
          /\ \A pos \in DOMAIN mat : pos \in DOMAIN mat' /\ mat'[pos] = mat[pos]
          /\ \A q \in DOMAIN proxies : q \in DOMAIN proxies'
    /\ pc' \in {"sending", "done"} =>
          \A pos \in DOMAIN mat' :
              /\ HasNode(doc', pos)
              /\ NodeAt(doc', pos).type = mat'[pos].type
              /\ NodeAt(doc', pos).alias = mat'[pos].alias
              /\ NodeAt(doc', pos).vals = mat'[pos].vals
              /\ \A p \in {q \in DOMAIN proxies' : q \in WrittenTo(pos)} :
                    NodeAt(doc', pos).vals[Last(p)[2]] = proxies'[p].value.v

C23_NestedMapMaterialization == [][C23_Step]_vars

C23_Witness ==
    /\ Exited
    /\ ~HasNode(doc0, <<<<"outer", "b">>>>)
    /\ {<<<<"outer", "b">>>>, <<<<"outer", "b">>, <<"inner", "a">>>>} \subseteq DOMAIN mat
    /\ HasNode(doc, <<<<"outer", "b">>, <<"inner", "a">>>>)
    /\ NodeAt(doc, <<<<"outer", "b">>, <<"inner", "a">>>>).vals["x"] = 1
    /\ nstmts = 2

\* ------------------------------------------------------------------ container identities
\* Documents of the schema Doc, looked at as Python objects: the value of "items"
\* is a list object and the value of "m" a dict object, and two attributes may
\* hold one and the same object. objs[o] is the contents of object o; objects 1
\* and 2 are the _default of the two descriptors.
MaxDocs == 2
MaxEdits == 4
ContainerFields == {"items", "m"}
\* the wire value a record carries for each of the two attributes, when it has one
WireOf(f) == IF f = "items" THEN <<"1">> ELSE ("A" :> "v")

\* the value a wire value is read to, when it is not None
ReadPresent(f, r) == IF f = "items" THEN ListFromRaw("Doc", f, r) ELSE DictFromRaw("Doc", f, r)

\* the descriptor hands out its stored default itself
DefaultShared(f, fresh) == DefaultObj(f)

\* FieldBase.default: copy(self._default) is an object of its own, given here the
\* next free identity; its contents are those of the stored default
DefaultValue(f, fresh) == fresh

\* the objects after copy(self._default) made one more
WithCopy(os, f) == Append(os, os[DefaultObj(f)])

\* from_raw of a container or dict descriptor: the default for None (the record
\* has no value), else a new container built from the wire value
FromRawObj(f, present, fresh) == IF present THEN fresh ELSE DefaultValue(f, fresh)
FromRawObjs(os, f, present) == IF present THEN Append(os, ReadPresent(f, WireOf(f))) ELSE WithCopy(os, f)

CanEdit == nedits < MaxEdits /\ nedits' = nedits + 1

\* NiceDocument(data): each of the two wire values is present or not
Construct(hasItems, hasMap) ==
    /\ Len(insts) < MaxDocs
    /\ CanEdit
    /\ objs' = FromRawObjs(FromRawObjs(objs, "items", hasItems), "m", hasMap)
    /\ insts' = Append(insts, [items |-> FromRawObj("items", hasItems, Len(objs) + 1),
                               m |-> FromRawObj("m", hasMap, Len(objs) + 2)])
    /\ acted' = Len(insts) + 1
    /\ UNCHANGED <<svars, cvars>>

\* NiceDocument.minimal: setattr(self, name, field.default) for every field
MinimalDoc ==
    /\ Len(insts) < MaxDocs
    /\ CanEdit
    /\ objs' = WithCopy(WithCopy(objs, "items"), "m")
    /\ insts' = Append(insts, [items |-> DefaultValue("items", Len(objs) + 1),
                               m |-> DefaultValue("m", Len(objs) + 2)])
    /\ acted' = Len(insts) + 1
    /\ UNCHANGED <<svars, cvars>>

\* a committed scope with cmd.f = ...: setattr(underlying_owner, name, field.default)
ClearField(i, f) ==
    /\ CanEdit
    /\ objs' = WithCopy(objs, f)
    /\ insts' = [insts EXCEPT ![i][f] = DefaultValue(f, Len(objs) + 1)]
    /\ acted' = i
    /\ UNCHANGED <<svars, cvars>>

\* a committed scope with cmd.items = v: the attribute is bound to the object given
ReplaceList(i, v) ==
    /\ CanEdit
    /\ objs' = Append(objs, v)
    /\ insts' = [insts EXCEPT ![i].items = Len(objs) + 1]
    /\ acted' = i
    /\ UNCHANGED <<svars, cvars>>

\* an in-place change of the object an attribute of instance i holds
InPlace(i, f, contents) ==
    /\ CanEdit
    /\ objs' = [objs EXCEPT ![insts[i][f]] = contents]
    /\ acted' = i
    /\ UNCHANGED <<insts, svars, cvars>>

\* a committed scope with cmd.items.append(el): containter.extend(to_add)
AddElem(i, el) == InPlace(i, "items", objs[insts[i].items] \o <<el>>)

\* a committed scope with cmd.items.remove(el): containter.remove(el)
RemoveElem(i, el) ==
    /\ el \in Range(objs[insts[i].items])
    /\ InPlace(i, "items", RemoveFirst(objs[insts[i].items], el))

\* a committed scope with cmd.m[k] = v: dict_attr[key] = val
SetKey(i, k, v) == InPlace(i, "m", Put(objs[insts[i].m], k, v))

\* a committed scope with cmd.m.pop(k): dict_attr.pop(key, None)
PopItem(i, k) == InPlace(i, "m", Drop(objs[insts[i].m], k))

InitObjects ==
    /\ ScopeIdle
    /\ CollectionIdle
    /\ ObjectsIdle

NextObjects ==
    \/ \E hasItems \in BOOLEAN : \E hasMap \in BOOLEAN : Construct(hasItems, hasMap)
    \/ MinimalDoc
    \/ \E i \in DOMAIN insts : \E f \in ContainerFields : ClearField(i, f)
    \/ \E i \in DOMAIN insts : ReplaceList(i, <<2>>)
    \/ \E i \in DOMAIN insts : \E el \in Elems : AddElem(i, el)
    \/ \E i \in DOMAIN insts : \E el \in Elems : RemoveElem(i, el)
    \/ \E i \in DOMAIN insts : \E k \in Keys : SetKey(i, k, "w")
    \/ \E i \in DOMAIN insts : \E k \in Keys : PopItem(i, k)

SpecObjects == InitObjects /\ [][NextObjects]_vars

\* no attribute holds the stored default of its descriptor, and no two instances
\* hold the same object in the same attribute
NoSharedContainer(is) ==
    \A i \in DOMAIN is : \A f \in ContainerFields :
        /\ is[i][f] # DefaultObj(f)
        /\ \A j \in DOMAIN is \ {i} : is[j][f] # is[i][f]

\* C24: the list and dict values the instances hold are never the descriptor's
\* stored default nor an object another instance holds in that attribute; a
\* step on one instance (construction, clear, replace, add, remove, set, pop)
\* leaves the contents of every attribute of every other instance, and of the
\* stored defaults, as they were
C24_Step ==
    /\ NoSharedContainer(insts')
    /\ \A f \in ContainerFields :
          /\ objs'[DefaultObj(f)] = objs[DefaultObj(f)]
          /\ \A j \in DOMAIN insts \ {acted'} : objs'[insts'[j][f]] = objs[insts[j][f]]

C24_NoDefaultAliasing == [][C24_Step]_vars

\* two instances, the first rebound to a new container (cleared or replaced) and
\* holding one element after the last step, which acted on it; the second
\* instance and the stored defaults are empty
C24_Witness ==
    /\ Len(insts) = 2
    /\ nedits = MaxEdits
    /\ acted = 1
    /\ Len(objs[insts[1].items]) = 1
    /\ Len(objs[insts[2].items]) = 0
    /\ DOMAIN objs[insts[2].m] = {}
    /\ Len(objs[DefaultObj("items")]) = 0
    /\ DOMAIN objs[DefaultObj("m")] = {}
    /\ Len(objs) > 6

\* C25: with a positive lifetime, a find(id) or get_cached_or_minimal(id) that
\* hits the cache sets the instance's use time to the clock as the call first
\* reads it, and the instance it returns is still the cache's entry for id when
\* the call returns, however far the clock moves before the sweep reads it
C25_HitNeverEvictsWhatItReturns ==
    [][nops' = nops + 1 /\ lastret'.hit /\ lifetime > 0 =>
          /\ heap'[lastret'.h].used = now
          /\ lastret'.id \in DOMAIN cache'
          /\ cache'[lastret'.id] = lastret'.h
      ]_vars
====
